---- MODULE Spec2Model ----
(***************************************************************************)
(* A model of src/lib/AudioUltra/Regions/Segment.ts: one Segment, its      *)
(* public operations and its pointer-driven gesture handlers.              *)
(*                                                                         *)
(* Times are integers (seconds), pointer positions are integer pixels.     *)
(* The visualizer is unscrolled and at zoom 1 (getScrollLeft() = 0,        *)
(* zoomedWidth = width), and the waveform lasts two seconds per pixel, so  *)
(* every conversion is exact; the rounding of IEEE doubles is not          *)
(* modelled.                                                               *)
(*                                                                         *)
(* The state is the Segment's own fields, the document listeners it        *)
(* installs, the cursor symbol it sets and the notifications it invokes.   *)
(* gesture records what the pointer has done since it went down, and peer  *)
(* is a second Segment of the same waveform, held as a record of the       *)
(* fields its pointer handlers use.                                        *)
(* The collaborators' state (playback, the canvas) is outside the model:   *)
(* what the controller answers is an input of the handler that asks.       *)
(*                                                                         *)
(* Common/Utils, Common/Color and Common/Events are not part of            *)
(* Segment.ts; their operators below follow the specification.             *)
(***************************************************************************)
EXTENDS Integers, Sequences, FiniteSets

VARIABLES
    start, end,             \* Segment.start, Segment.end
    color,                  \* Segment.color: [base, dark]
    handleColor,            \* Segment.handleColor: the colour it is derived from
    selected, highlighted,
    updateable, deleteable, visible,
    isDragging,
    draggingStartPosition,  \* << >> for null, else <<[grabPosition, start, end]>>
    isGrabbingEdge,         \* [isRightEdge, isLeftEdge]
    docListeners,           \* the document listeners installed by mouseDown
    isDestroyed,            \* Destructable.isDestroyed
    subscribed,             \* the local mouseOver/mouseDown listeners are attached
    cursor,                 \* the symbol last given to waveform.cursor.set
    emitted,                \* the notifications invoked by the last call, in order
    lastOp,                 \* the last operation or handler called
    requestedDeleteable,    \* the deleteable value the caller last asked for
    gesture,                \* what the pointer has done since it went down: "none"
                            \* (it is up), "armed" (down, no drag update ran yet)
                            \* or "dragged" (down, a drag update ran)
    peer                    \* a second Segment of the same waveform, as a record

segVars == <<start, end, color, handleColor, selected, highlighted,
             updateable, deleteable, visible>>
gestureVars == <<isDragging, draggingStartPosition, isGrabbingEdge, docListeners>>
vars == <<start, end, color, handleColor, selected, highlighted,
          updateable, deleteable, visible,
          isDragging, draggingStartPosition, isGrabbingEdge, docListeners,
          isDestroyed, subscribed, cursor, emitted, lastOp, requestedDeleteable,
          gesture, peer>>

----------------------------------------------------------------------------
(* Bounds and program constants *)

ZoomedWidth == 5                \* visualizer.zoomedWidth, in pixels
Duration == 2 * ZoomedWidth     \* waveform.duration, in seconds
handleWidth == 2                \* Segment.handleWidth, in pixels

Pixels == 0..ZoomedWidth                    \* pointer positions of a pointer-down
DragPixels == (0 - 1)..(ZoomedWidth + 1)    \* pointer positions of a pointer-move
Times == {0, 2, Duration - 2, Duration}     \* bounds given by callers
Colors == {"#ccc", "#f00"}

----------------------------------------------------------------------------
(* Common/Utils *)

Min(a, b) == IF a < b THEN a ELSE b
Max(a, b) == IF a > b THEN a ELSE b

clamp(value, lo, hi) == Max(lo, Min(hi, value))

pixelsToTime(pixels, zoomedWidth, duration) == (pixels * duration) \div zoomedWidth

getCursorPositionX(x) == x

getScrollLeft == 0

getCursorTime(x) == pixelsToTime(getCursorPositionX(x) + getScrollLeft, ZoomedWidth, Duration)

----------------------------------------------------------------------------
(* Common/Color *)

rgba(c) == [base |-> c, dark |-> FALSE]

colorReset(c) == [c EXCEPT !.dark = FALSE]

colorDarken(c) == [c EXCEPT !.dark = TRUE]

colorUpdate(c, new) == [base |-> new, dark |-> FALSE]

----------------------------------------------------------------------------
(* Segment *)

NoEdge == [isRightEdge |-> FALSE, isLeftEdge |-> FALSE]

Has(options, field) == field \in DOMAIN options

TypeOK ==
    /\ start \in Nat /\ end \in Nat
    /\ color \in [base : Colors, dark : BOOLEAN]
    /\ handleColor \in Colors
    /\ selected \in BOOLEAN /\ highlighted \in BOOLEAN
    /\ updateable \in BOOLEAN /\ deleteable \in BOOLEAN /\ visible \in BOOLEAN
    /\ isDragging \in BOOLEAN
    /\ Len(draggingStartPosition) <= 1
    /\ isGrabbingEdge \in [isRightEdge : BOOLEAN, isLeftEdge : BOOLEAN]
    /\ docListeners \subseteq {"mousemove", "mouseup"}
    /\ isDestroyed \in BOOLEAN /\ subscribed \in BOOLEAN
    /\ requestedDeleteable \in BOOLEAN
    /\ gesture \in {"none", "armed", "dragged"}

(* new Segment({start: s, end: e}, ...) as a record: the fields the pointer *)
(* handlers read and write, on an updateable segment.                      *)
newSegment(s, e) ==
    [start |-> s, end |-> e, selected |-> FALSE, color |-> rgba("#ccc"),
     updateable |-> TRUE, isDragging |-> FALSE, draggingStartPosition |-> << >>,
     isGrabbingEdge |-> NoEdge, docListeners |-> {}, emitted |-> << >>]

(* new Segment(options, ...): options.start and options.end are any        *)
(* non-negative times (a negative one throws), options.deleteable and      *)
(* options.color are not read.                                             *)
Init ==
    /\ start \in Times
    /\ end \in Times
    /\ selected \in BOOLEAN
    /\ updateable \in BOOLEAN
    /\ visible \in BOOLEAN
    /\ requestedDeleteable \in BOOLEAN
    /\ deleteable = TRUE
    /\ highlighted = FALSE
    /\ color = rgba("#ccc")
    /\ handleColor = "#ccc"
    /\ isDragging = FALSE
    /\ draggingStartPosition = << >>
    /\ isGrabbingEdge = NoEdge
    /\ docListeners = {}
    /\ isDestroyed = FALSE
    /\ subscribed = TRUE
    /\ cursor = "default"
    /\ emitted = << >>
    /\ lastOp = "constructor"
    /\ gesture = "none"
    /\ peer = newSegment(2, Duration)

Optional(S) == {<< >>} \cup {<<v>> : v \in S}

orElse(opt, dflt) == IF opt = << >> THEN dflt ELSE opt[1]

given(opt) == opt # << >> /\ opt[1]

(* update(options): the early return of line 95 *)
updateRefused(options) ==
    ~updateable /\ Has(options, "updateable") /\ ~options.updateable

update(options) ==
    /\ lastOp' = "update"
    /\ emitted' = << >>
    /\ IF updateRefused(options)
       THEN UNCHANGED <<segVars, requestedDeleteable>>
       ELSE /\ updateable' = IF Has(options, "updateable") THEN options.updateable ELSE updateable
            /\ deleteable' = IF Has(options, "deleteable") THEN options.deleteable ELSE deleteable
            /\ requestedDeleteable' =
                   IF Has(options, "deleteable") THEN options.deleteable ELSE requestedDeleteable
            /\ start' = IF Has(options, "start") THEN options.start ELSE start
            /\ end' = IF Has(options, "end") THEN options.end ELSE end
            /\ selected' = IF Has(options, "selected") THEN options.selected ELSE selected
            /\ visible' = IF Has(options, "visible") THEN options.visible ELSE visible
            /\ color' = IF Has(options, "color") THEN rgba(options.color) ELSE color
            /\ UNCHANGED <<handleColor, highlighted>>
    /\ UNCHANGED <<gestureVars, isDestroyed, subscribed, cursor>>

(* setVisibility without the early return of line 121 *)
setVisibilityAlways(v) ==
    /\ lastOp' = "setVisibility"
    /\ visible' = v /\ emitted' = <<"update", "regionUpdated">>
    /\ UNCHANGED <<start, end, color, handleColor, selected, highlighted,
                   updateable, deleteable, requestedDeleteable,
                   gestureVars, isDestroyed, subscribed, cursor>>

setVisibility(v) ==
    /\ lastOp' = "setVisibility"
    /\ IF v = visible
       THEN visible' = visible /\ emitted' = << >>
       ELSE visible' = v /\ emitted' = <<"update", "regionUpdated">>
    /\ UNCHANGED <<start, end, color, handleColor, selected, highlighted,
                   updateable, deleteable, requestedDeleteable,
                   gestureVars, isDestroyed, subscribed, cursor>>

(* The geometry getters at zoom 1, in units of 1/Duration pixel (the code's *)
(* xStart, width and xEnd, each multiplied by Duration).                   *)
xStart == start * ZoomedWidth - ZoomedWidth * getScrollLeft * Duration

width == (end - start) * ZoomedWidth

xEnd == xStart + width

inViewport ==
    LET w == ZoomedWidth * Duration IN
    IF xStart <= 0 /\ xEnd <= 0 THEN FALSE
    ELSE IF xStart >= w /\ xEnd >= w THEN FALSE
    ELSE TRUE

edgeGrabCheck(x) ==
    LET cursorTime == getCursorTime(x)
        handleTime == pixelsToTime(handleWidth, ZoomedWidth, Duration)
    IN  [isRightEdge |-> cursorTime > end - handleTime,
         isLeftEdge |-> cursorTime < start + handleTime]

mouseOver(x, layerVisible) ==
    /\ subscribed
    /\ lastOp' = "mouseOver"
    /\ emitted' = << >>
    /\ IF ~updateable \/ ~layerVisible
       THEN cursor' = cursor
       ELSE LET isEdgeGrab == edgeGrabCheck(x) IN
            IF isDragging THEN cursor' = cursor
            ELSE IF isEdgeGrab.isRightEdge \/ isEdgeGrab.isLeftEdge
                 THEN cursor' = "colResize"
                 ELSE cursor' = "grab"
    /\ UNCHANGED <<segVars, requestedDeleteable, gestureVars, isDestroyed, subscribed>>

setColorDarken(c) == IF ~c.dark THEN colorDarken(c) ELSE c

(* handleSelected whose else branch (line 337) leaves the colour as it is *)
handleSelectedKeepsColor(sel) ==
    IF ~updateable
    THEN [selected |-> selected, color |-> color, emitted |-> << >>]
    ELSE [selected |-> orElse(sel, ~selected),
          color |-> IF given(sel) THEN setColorDarken(color) ELSE color,
          emitted |-> <<"update", "regionUpdated">>]

(* handleSelected(selected?): the new selected flag, colour and notifications *)
handleSelectedResult(sel) ==
    IF ~updateable
    THEN [selected |-> selected, color |-> color, emitted |-> << >>]
    ELSE [selected |-> orElse(sel, ~selected),
          color |-> IF given(sel) THEN setColorDarken(color) ELSE colorReset(color),
          emitted |-> <<"update", "regionUpdated">>]

handleSelected(sel) ==
    /\ lastOp' = "handleSelected"
    /\ LET r == handleSelectedResult(sel) IN
        /\ selected' = r.selected
        /\ color' = r.color
        /\ emitted' = r.emitted
    /\ UNCHANGED <<start, end, handleColor, highlighted, updateable, deleteable, visible,
                   requestedDeleteable, gestureVars, isDestroyed, subscribed, cursor>>

(* handleHighlighted without the selected test of line 344 *)
handleHighlightedOverSelection(hl) ==
    /\ lastOp' = "handleHighlighted"
    /\ IF ~updateable
       THEN UNCHANGED <<highlighted, color>> /\ emitted' = << >>
       ELSE /\ highlighted' = orElse(hl, ~highlighted)
            /\ color' = IF highlighted' THEN setColorDarken(color) ELSE colorReset(color)
            /\ emitted' = <<"update", "regionUpdated">>
    /\ UNCHANGED <<start, end, handleColor, selected, updateable, deleteable, visible,
                   requestedDeleteable, gestureVars, isDestroyed, subscribed, cursor>>

handleHighlighted(hl) ==
    /\ lastOp' = "handleHighlighted"
    /\ IF ~updateable \/ selected
       THEN UNCHANGED <<highlighted, color>> /\ emitted' = << >>
       ELSE /\ highlighted' = orElse(hl, ~highlighted)
            /\ color' = IF highlighted' THEN setColorDarken(color) ELSE colorReset(color)
            /\ emitted' = <<"update", "regionUpdated">>
    /\ UNCHANGED <<start, end, handleColor, selected, updateable, deleteable, visible,
                   requestedDeleteable, gestureVars, isDestroyed, subscribed, cursor>>

updateColor(c) ==
    /\ lastOp' = "updateColor"
    /\ IF ~updateable
       THEN UNCHANGED <<color, handleColor>> /\ emitted' = << >>
       ELSE /\ color' = colorUpdate(color, c)
            /\ handleColor' = c
            /\ emitted' = <<"update", "regionUpdated">>
    /\ UNCHANGED <<start, end, selected, highlighted, updateable, deleteable, visible,
                   requestedDeleteable, gestureVars, isDestroyed, subscribed, cursor>>

(* updatePosition without the early return of line 375 *)
updatePositionUnguarded(s, e) ==
    LET newStart == orElse(s, start)
        newEnd == orElse(e, end)
    IN  [start |-> IF newStart > newEnd THEN newEnd ELSE newStart,
         end |-> IF newStart > newEnd THEN newStart ELSE newEnd,
         emitted |-> <<"update", "regionUpdated">>]

(* updatePosition(start?, end?): the new bounds and notifications *)
(* updatePosition without the waveform.invoke of line 386 *)
updatePositionLocalOnly(s, e) ==
    IF ~updateable
    THEN [start |-> start, end |-> end, emitted |-> << >>]
    ELSE LET newStart == orElse(s, start)
             newEnd == orElse(e, end)
         IN  [start |-> IF newStart > newEnd THEN newEnd ELSE newStart,
              end |-> IF newStart > newEnd THEN newStart ELSE newEnd,
              emitted |-> <<"update">>]

updatePositionResult(s, e) ==
    IF ~updateable
    THEN [start |-> start, end |-> end, emitted |-> << >>]
    ELSE LET newStart == orElse(s, start)
             newEnd == orElse(e, end)
         IN  [start |-> IF newStart > newEnd THEN newEnd ELSE newStart,
              end |-> IF newStart > newEnd THEN newStart ELSE newEnd,
              emitted |-> <<"update", "regionUpdated">>]

updatePosition(s, e) ==
    /\ lastOp' = "updatePosition"
    /\ LET r == updatePositionResult(s, e) IN
        /\ start' = r.start
        /\ end' = r.end
        /\ emitted' = r.emitted
    /\ UNCHANGED <<color, handleColor, selected, highlighted, updateable, deleteable, visible,
                   requestedDeleteable, gestureVars, isDestroyed, subscribed, cursor>>

(* dragTarget with the lower clamp of the end forgetting the width *)
dragTargetNoWidth(x) ==
    LET freezeStart == isGrabbingEdge.isRightEdge
        freezeEnd == isGrabbingEdge.isLeftEdge
        grab == draggingStartPosition[1]
        position == getCursorPositionX(x) + getScrollLeft
        currentPosition == IF position < 0 THEN 0 ELSE position
        newPosition == currentPosition - grab.grabPosition
        seconds == pixelsToTime(newPosition, ZoomedWidth, Duration)
        timeDiff == grab.end - grab.start
        newStart == IF freezeEnd THEN grab.start + seconds
                    ELSE clamp(grab.start + seconds, 0, Duration - timeDiff)
        startTime == IF freezeStart THEN grab.start ELSE newStart
        endTime == IF freezeEnd THEN grab.end
                   ELSE clamp(grab.end + seconds, newStart, Duration)
    IN  [start |-> clamp(startTime, 0, Duration), end |-> clamp(endTime, 0, Duration)]

(* handleDrag: the pair handed to updatePosition on line 259 *)
dragTarget(x) ==
    LET freezeStart == isGrabbingEdge.isRightEdge
        freezeEnd == isGrabbingEdge.isLeftEdge
        grab == draggingStartPosition[1]
        isResizing == freezeStart \/ freezeEnd
        position == getCursorPositionX(x) + getScrollLeft
        currentPosition == IF position < 0 THEN 0 ELSE position
        newPosition == currentPosition - grab.grabPosition
        seconds == pixelsToTime(newPosition, ZoomedWidth, Duration)
        timeDiff == grab.end - grab.start
        newStart == IF freezeEnd THEN grab.start + seconds
                    ELSE clamp(grab.start + seconds, 0, Duration - timeDiff)
        startTime == IF freezeStart THEN grab.start ELSE newStart
        endTime == IF freezeEnd THEN grab.end
                   ELSE clamp(grab.end + seconds,
                              newStart + (IF isResizing THEN 0 ELSE timeDiff), Duration)
    IN  [start |-> clamp(startTime, 0, Duration), end |-> clamp(endTime, 0, Duration)]

handleDrag(x) ==
    /\ "mousemove" \in docListeners
    /\ lastOp' = "handleDrag"
    /\ IF ~updateable \/ draggingStartPosition = << >>
       THEN UNCHANGED <<start, end, isDragging, cursor, gesture>> /\ emitted' = << >>
       ELSE LET t == dragTarget(x)
                r == updatePositionResult(<<t.start>>, <<t.end>>)
            IN  /\ isDragging' = TRUE
                /\ gesture' = IF gesture = "none" THEN "none" ELSE "dragged"
                /\ cursor' = IF isGrabbingEdge.isRightEdge \/ isGrabbingEdge.isLeftEdge
                             THEN "colResize" ELSE "grabbing"
                /\ start' = r.start
                /\ end' = r.end
                /\ emitted' = r.emitted
    /\ UNCHANGED <<color, handleColor, selected, highlighted, updateable, deleteable, visible,
                   requestedDeleteable, draggingStartPosition, isGrabbingEdge, docListeners,
                   isDestroyed, subscribed>>

(* the tests of mouseDown without controller.isLocked (line 265) *)
mouseDownIgnoredUnlessLocked(overrideKey, isLocked, layerVisible) ==
    \/ ~updateable \/ ~layerVisible
    \/ overrideKey

mouseDownIgnored(overrideKey, isLocked, layerVisible) ==
    \/ ~updateable \/ ~layerVisible
    \/ overrideKey \/ isLocked

(* mouseDown that returns when another segment is in a gesture *)
mouseDownOneAtATime(x, overrideKey, isLocked, layerVisible) ==
    /\ subscribed
    /\ lastOp' = "mouseDown"
    /\ emitted' = << >>
    /\ IF mouseDownIgnored(overrideKey, isLocked, layerVisible)
          \/ peer.draggingStartPosition # << >>
       THEN UNCHANGED <<draggingStartPosition, isGrabbingEdge, docListeners, gesture>>
       ELSE /\ gesture' = IF gesture = "none" THEN "armed" ELSE gesture
            /\ draggingStartPosition' =
                   <<[grabPosition |-> getCursorPositionX(x) + getScrollLeft,
                      start |-> start, end |-> end]>>
            /\ isGrabbingEdge' = edgeGrabCheck(x)
            /\ docListeners' = docListeners \cup {"mouseup", "mousemove"}
    /\ UNCHANGED <<segVars, requestedDeleteable, isDragging, isDestroyed, subscribed, cursor>>

mouseDown(x, overrideKey, isLocked, layerVisible) ==
    /\ subscribed
    /\ lastOp' = "mouseDown"
    /\ emitted' = << >>
    /\ IF mouseDownIgnored(overrideKey, isLocked, layerVisible)
       THEN UNCHANGED <<draggingStartPosition, isGrabbingEdge, docListeners, gesture>>
       ELSE /\ gesture' = IF gesture = "none" THEN "armed" ELSE gesture
            /\ draggingStartPosition' =
                   <<[grabPosition |-> getCursorPositionX(x) + getScrollLeft,
                      start |-> start, end |-> end]>>
            /\ isGrabbingEdge' = edgeGrabCheck(x)
            /\ docListeners' = docListeners \cup {"mouseup", "mousemove"}
    /\ UNCHANGED <<segVars, requestedDeleteable, isDragging, isDestroyed, subscribed, cursor>>

handleUpdateEnd == <<"updateEnd", "regionUpdatedEnd">>

(* handleMouseUp: the early return of line 215 *)
mouseUpIgnored == ~updateable

handleMouseUp ==
    /\ "mouseup" \in docListeners
    /\ lastOp' = "handleMouseUp"
    /\ gesture' = "none"
    /\ IF mouseUpIgnored
       THEN UNCHANGED <<selected, color, cursor, gestureVars>> /\ emitted' = << >>
       ELSE /\ IF isDragging
               THEN /\ cursor' = "grab"
                    /\ emitted' = handleUpdateEnd
                    /\ UNCHANGED <<selected, color>>
               ELSE LET r == handleSelectedResult(<< >>) IN
                    /\ selected' = r.selected
                    /\ color' = r.color
                    /\ emitted' = r.emitted \o <<"regionSelected">>
                    /\ cursor' = cursor
            /\ isDragging' = FALSE
            /\ draggingStartPosition' = << >>
            /\ isGrabbingEdge' = NoEdge
            /\ docListeners' = docListeners \ {"mousemove", "mouseup"}
    /\ UNCHANGED <<start, end, handleColor, highlighted, updateable, deleteable, visible,
                   requestedDeleteable, isDestroyed, subscribed>>

render ==
    /\ lastOp' = "render"
    /\ emitted' = << >>
    /\ IF ~visible \/ ~inViewport
       THEN color' = color
       ELSE color' = IF selected THEN setColorDarken(color) ELSE color
    /\ UNCHANGED <<start, end, handleColor, selected, highlighted, updateable, deleteable,
                   visible, requestedDeleteable, gestureVars, isDestroyed, subscribed, cursor>>

(* remove(): the notifications it invokes *)
removeResult == IF ~deleteable THEN << >> ELSE <<"regionRemoved">>

remove ==
    /\ lastOp' = "remove"
    /\ emitted' = removeResult
    /\ UNCHANGED <<segVars, requestedDeleteable, gestureVars, isDestroyed, subscribed, cursor>>

(* Events.destroy(): marks the segment destroyed, releases its listeners *)
superDestroy == [isDestroyed |-> TRUE, subscribed |-> FALSE]

(* destroy without the isDestroyed test of line 404 *)
destroyAgain(notify) ==
    /\ lastOp' = "destroy"
    /\ IF ~deleteable
       THEN UNCHANGED <<isDestroyed, subscribed>> /\ emitted' = << >>
       ELSE /\ emitted' = IF orElse(notify, TRUE) THEN removeResult ELSE << >>
            /\ isDestroyed' = superDestroy.isDestroyed
            /\ subscribed' = superDestroy.subscribed
    /\ UNCHANGED <<segVars, requestedDeleteable, gestureVars, cursor>>

destroy(notify) ==
    /\ lastOp' = "destroy"
    /\ IF ~deleteable \/ isDestroyed
       THEN UNCHANGED <<isDestroyed, subscribed>> /\ emitted' = << >>
       ELSE /\ emitted' = IF orElse(notify, TRUE) THEN removeResult ELSE << >>
            /\ isDestroyed' = superDestroy.isDestroyed
            /\ subscribed' = superDestroy.subscribed
    /\ UNCHANGED <<segVars, requestedDeleteable, gestureVars, cursor>>

----------------------------------------------------------------------------
(* The pointer handlers once more, as functions of a Segment record: what  *)
(* mouseDown, handleDrag and handleMouseUp above do to the variables,      *)
(* these do to the fields of seg. A second Segment runs the same code on   *)
(* its own fields.                                                         *)

edgeGrabCheckOn(seg, x) ==
    LET cursorTime == getCursorTime(x)
        handleTime == pixelsToTime(handleWidth, ZoomedWidth, Duration)
    IN  [isRightEdge |-> cursorTime > seg.end - handleTime,
         isLeftEdge |-> cursorTime < seg.start + handleTime]

mouseDownOn(seg, x, overrideKey, isLocked, layerVisible) ==
    IF ~seg.updateable \/ ~layerVisible \/ overrideKey \/ isLocked
    THEN [seg EXCEPT !.emitted = << >>]
    ELSE [seg EXCEPT !.emitted = << >>,
                     !.draggingStartPosition =
                         <<[grabPosition |-> getCursorPositionX(x) + getScrollLeft,
                            start |-> seg.start, end |-> seg.end]>>,
                     !.isGrabbingEdge = edgeGrabCheckOn(seg, x),
                     !.docListeners = seg.docListeners \cup {"mouseup", "mousemove"}]

dragTargetOn(seg, x) ==
    LET freezeStart == seg.isGrabbingEdge.isRightEdge
        freezeEnd == seg.isGrabbingEdge.isLeftEdge
        grab == seg.draggingStartPosition[1]
        isResizing == freezeStart \/ freezeEnd
        position == getCursorPositionX(x) + getScrollLeft
        currentPosition == IF position < 0 THEN 0 ELSE position
        newPosition == currentPosition - grab.grabPosition
        seconds == pixelsToTime(newPosition, ZoomedWidth, Duration)
        timeDiff == grab.end - grab.start
        newStart == IF freezeEnd THEN grab.start + seconds
                    ELSE clamp(grab.start + seconds, 0, Duration - timeDiff)
        startTime == IF freezeStart THEN grab.start ELSE newStart
        endTime == IF freezeEnd THEN grab.end
                   ELSE clamp(grab.end + seconds,
                              newStart + (IF isResizing THEN 0 ELSE timeDiff), Duration)
    IN  [start |-> clamp(startTime, 0, Duration), end |-> clamp(endTime, 0, Duration)]

handleDragOn(seg, x) ==
    IF ~seg.updateable \/ seg.draggingStartPosition = << >>
    THEN [seg EXCEPT !.emitted = << >>]
    ELSE LET t == dragTargetOn(seg, x) IN
         [seg EXCEPT !.isDragging = TRUE,
                     !.start = IF t.start > t.end THEN t.end ELSE t.start,
                     !.end = IF t.start > t.end THEN t.start ELSE t.end,
                     !.emitted = <<"update", "regionUpdated">>]

handleMouseUpOn(seg) ==
    IF ~seg.updateable
    THEN [seg EXCEPT !.emitted = << >>]
    ELSE [seg EXCEPT !.selected = IF seg.isDragging THEN seg.selected ELSE ~seg.selected,
                     !.color = IF seg.isDragging THEN seg.color ELSE colorReset(seg.color),
                     !.emitted = IF seg.isDragging THEN handleUpdateEnd
                                 ELSE <<"update", "regionUpdated", "regionSelected">>,
                     !.isDragging = FALSE,
                     !.draggingStartPosition = << >>,
                     !.isGrabbingEdge = NoEdge,
                     !.docListeners = seg.docListeners \ {"mousemove", "mouseup"}]

----------------------------------------------------------------------------
(* The calls the collaborators make *)

(* What the controller answers to a pointer-down: nothing in the way, or   *)
(* one of the three reasons to ignore it.                                  *)
Controllers ==
    {[overrideKey |-> FALSE, isLocked |-> FALSE, layerVisible |-> TRUE],
     [overrideKey |-> TRUE, isLocked |-> FALSE, layerVisible |-> TRUE],
     [overrideKey |-> FALSE, isLocked |-> TRUE, layerVisible |-> TRUE],
     [overrideKey |-> FALSE, isLocked |-> FALSE, layerVisible |-> FALSE]}

UpdateOptions ==
    {[updateable |-> b] : b \in BOOLEAN}
    \cup {[deleteable |-> b] : b \in BOOLEAN}
    \cup {[start |-> s] : s \in Times}
    \cup {[end |-> e] : e \in Times}
    \cup {[start |-> s, end |-> e] : s \in Times, e \in Times}
    \cup {[selected |-> b] : b \in BOOLEAN}
    \cup {[visible |-> b] : b \in BOOLEAN}
    \cup {[color |-> c] : c \in Colors}
    \cup {[updateable |-> b, start |-> s] : b \in BOOLEAN, s \in Times}
    \cup {[updateable |-> b, deleteable |-> d] : b \in BOOLEAN, d \in BOOLEAN}

Update == \E options \in UpdateOptions :
    update(options) /\ UNCHANGED <<gesture, peer>>
SetVisibility == \E v \in BOOLEAN :
    setVisibility(v) /\ UNCHANGED <<gesture, peer>>
MouseOver == \E x \in Pixels, layerVisible \in BOOLEAN :
    mouseOver(x, layerVisible) /\ UNCHANGED <<gesture, peer>>
MouseDown ==
    \E x \in Pixels, c \in Controllers :
        mouseDown(x, c.overrideKey, c.isLocked, c.layerVisible) /\ UNCHANGED peer
HandleDrag == \E x \in DragPixels : handleDrag(x) /\ UNCHANGED peer
HandleMouseUp == handleMouseUp /\ UNCHANGED peer
Render == render /\ UNCHANGED <<gesture, peer>>
HandleSelected == \E sel \in Optional(BOOLEAN) :
    handleSelected(sel) /\ UNCHANGED <<gesture, peer>>
HandleHighlighted == \E hl \in Optional(BOOLEAN) :
    handleHighlighted(hl) /\ UNCHANGED <<gesture, peer>>
UpdateColor == \E c \in Colors : updateColor(c) /\ UNCHANGED <<gesture, peer>>
UpdatePosition == \E s \in Optional(Times), e \in Optional(Times) :
    updatePosition(s, e) /\ UNCHANGED <<gesture, peer>>
Remove == remove /\ UNCHANGED <<gesture, peer>>
Destroy == \E notify \in Optional(BOOLEAN) :
    destroy(notify) /\ UNCHANGED <<gesture, peer>>

Next ==
    \/ Update
    \/ SetVisibility
    \/ MouseOver
    \/ MouseDown
    \/ HandleDrag
    \/ HandleMouseUp
    \/ Render
    \/ HandleSelected
    \/ HandleHighlighted
    \/ UpdateColor
    \/ UpdatePosition
    \/ Remove
    \/ Destroy

Spec == Init /\ [][Next]_vars

(* The specifications below are Spec restricted to the calls that write    *)
(* or read the variables a family of properties is about; the calls left   *)
(* out of one write none of the variables its handlers read.               *)

----------------------------------------------------------------------------
(* Gestures: the pointer handlers, and update switching updateable or      *)
(* moving the bounds under a gesture. A drag update reads the grab, the    *)
(* grabbed edges and updateable only.                                      *)

GestureInit == Init /\ visible /\ requestedDeleteable /\ ~selected

GestureTimes == {2, Duration - 2}

GestureUpdate ==
    \E options \in {[updateable |-> b] : b \in BOOLEAN}
                   \cup {[start |-> s, end |-> e] : s \in GestureTimes, e \in GestureTimes} :
        update(options) /\ UNCHANGED <<gesture, peer>>

GestureNext ==
    \/ GestureUpdate
    \/ MouseDown
    \/ HandleDrag
    \/ HandleMouseUp

SpecGesture == GestureInit /\ [][GestureNext]_vars

----------------------------------------------------------------------------
(* The capability guard: every operation that returns early on a segment   *)
(* that is not updateable, the update calls that switch the flag, and the  *)
(* release of a gesture; on few bounds and pointer positions.              *)

GuardTimes == {0, Duration - 2}
GuardPixels == {1, 2}
GuardDragPixels == {3}

GuardInit == Init /\ start = 0 /\ end = Duration - 2 /\ visible /\ requestedDeleteable

GuardUpdate ==
    \E options \in {[updateable |-> b] : b \in BOOLEAN} :
        update(options) /\ UNCHANGED <<gesture, peer>>

GuardMouseOver == \E x \in GuardPixels, layerVisible \in BOOLEAN :
    mouseOver(x, layerVisible) /\ UNCHANGED <<gesture, peer>>

GuardMouseDown ==
    \E x \in GuardPixels, c \in Controllers :
        mouseDown(x, c.overrideKey, c.isLocked, c.layerVisible) /\ UNCHANGED peer

GuardHandleDrag == \E x \in GuardDragPixels : handleDrag(x) /\ UNCHANGED peer

GuardUpdatePosition ==
    \E s \in Optional(GuardTimes), e \in Optional(GuardTimes) :
        updatePosition(s, e) /\ UNCHANGED <<gesture, peer>>

GuardNext ==
    \/ GuardUpdate
    \/ GuardMouseOver
    \/ GuardMouseDown
    \/ GuardHandleDrag
    \/ HandleMouseUp
    \/ HandleSelected
    \/ HandleHighlighted
    \/ UpdateColor
    \/ GuardUpdatePosition

SpecGuard == GuardInit /\ [][GuardNext]_vars

----------------------------------------------------------------------------
(* The life cycle: update with every option, removal and teardown, and the *)
(* programmatic calls made on a segment after it.                          *)

LifeInit == Init

LifeNext ==
    \/ Update
    \/ SetVisibility
    \/ UpdatePosition
    \/ Remove
    \/ Destroy

SpecLife == LifeInit /\ [][LifeNext]_vars

----------------------------------------------------------------------------
(* Arming: a pointer-down at every position under every answer of the      *)
(* controller, on one segment whose updateable flag is switched, with the  *)
(* pointer-move and pointer-up that follow.                                *)

ArmInit == GuardInit /\ ~selected

ArmNext ==
    \/ GuardUpdate
    \/ MouseDown
    \/ GuardHandleDrag
    \/ HandleMouseUp

SpecArm == ArmInit /\ [][ArmNext]_vars

----------------------------------------------------------------------------
(* The display: the calls that change what is drawn (bounds, colour,       *)
(* visibility, selection, highlight) and the frames rendered in between,   *)
(* on few bounds.                                                          *)

DisplayInit == Init /\ start = 0 /\ end = Duration - 2 /\ requestedDeleteable

DisplayUpdate ==
    \E options \in {[updateable |-> b] : b \in BOOLEAN}
                   \cup {[selected |-> b] : b \in BOOLEAN}
                   \cup {[visible |-> b] : b \in BOOLEAN}
                   \cup {[color |-> c] : c \in Colors}
                   \cup {[start |-> t, end |-> t] : t \in GuardTimes} :
        update(options) /\ UNCHANGED <<gesture, peer>>

DisplayNext ==
    \/ DisplayUpdate
    \/ SetVisibility
    \/ Render
    \/ HandleSelected
    \/ HandleHighlighted
    \/ UpdateColor
    \/ GuardUpdatePosition

SpecDisplay == DisplayInit /\ [][DisplayNext]_vars

----------------------------------------------------------------------------
(* Two segments of one waveform: each gets its own pointer-down, and the   *)
(* document delivers a mousemove or a mouseup to every listener installed  *)
(* on it; on few pointer positions. cursor records what the first segment  *)
(* asked for.                                                              *)

ownVars == <<segVars, gestureVars, isDestroyed, subscribed, cursor, emitted, lastOp,
             requestedDeleteable, gesture>>

PairInit == GuardInit /\ updateable /\ ~selected

PeerMouseDown ==
    \E x \in GuardPixels, c \in Controllers :
        /\ peer' = mouseDownOn(peer, x, c.overrideKey, c.isLocked, c.layerVisible)
        /\ UNCHANGED ownVars

DocumentMouseMove ==
    \E x \in GuardPixels \cup GuardDragPixels :
        /\ "mousemove" \in docListeners \cup peer.docListeners
        /\ IF "mousemove" \in docListeners THEN handleDrag(x) ELSE UNCHANGED ownVars
        /\ peer' = IF "mousemove" \in peer.docListeners THEN handleDragOn(peer, x) ELSE peer

DocumentMouseUp ==
    /\ "mouseup" \in docListeners \cup peer.docListeners
    /\ IF "mouseup" \in docListeners THEN handleMouseUp ELSE UNCHANGED ownVars
    /\ peer' = IF "mouseup" \in peer.docListeners THEN handleMouseUpOn(peer) ELSE peer

PairNext ==
    \/ GuardMouseDown
    \/ PeerMouseDown
    \/ DocumentMouseMove
    \/ DocumentMouseUp

SpecPair == PairInit /\ [][PairNext]_vars

----------------------------------------------------------------------------
(* Properties *)

Armed == draggingStartPosition # << >>

Grab == draggingStartPosition[1]

(* The time delta of a pointer-move to pixel x, relative to the grab. *)
Delta(x) == pixelsToTime(Max(getCursorPositionX(x) + getScrollLeft, 0) - Grab.grabPosition,
                         ZoomedWidth, Duration)

WellFormedGrab == 0 <= Grab.start /\ Grab.start <= Grab.end /\ Grab.end <= Duration

PureMove == Armed /\ ~isGrabbingEdge.isRightEdge /\ ~isGrabbingEdge.isLeftEdge

LeftResize == Armed /\ isGrabbingEdge.isLeftEdge /\ ~isGrabbingEdge.isRightEdge

RightResize == Armed /\ isGrabbingEdge.isRightEdge /\ ~isGrabbingEdge.isLeftEdge

Idle ==
    /\ ~isDragging
    /\ draggingStartPosition = << >>
    /\ isGrabbingEdge = NoEdge
    /\ docListeners = {}

Globals == {"regionUpdated", "regionSelected", "regionUpdatedEnd", "regionRemoved"}

EmitsGlobal(seq) == \E i \in 1..Len(seq) : seq[i] \in Globals

(* C1: in every reachable state of a Segment, start <= end. *)
C1_StartLeEnd == start <= end

(* C2: every drag update of a pure-move gesture on a segment lying within  *)
(* [0, Duration] commits bounds that keep the width captured at            *)
(* pointer-down and stay within [0, Duration]; when the shifted pair stays *)
(* in range the bounds are exactly the grabbed ones plus the delta.        *)
C2_PureMovePreservesWidth ==
    [][\A x \in DragPixels :
         (handleDrag(x) /\ updateable /\ PureMove /\ WellFormedGrab) =>
             /\ end' - start' = Grab.end - Grab.start
             /\ 0 <= start' /\ end' <= Duration
             /\ (0 <= Grab.start + Delta(x) /\ Grab.end + Delta(x) <= Duration) =>
                    (start' = Grab.start + Delta(x) /\ end' = Grab.end + Delta(x))]_vars

(* C2 witness: a pure-move drag update has shifted the segment to the right. *)
C2_Witness ==
    /\ lastOp = "handleDrag" /\ updateable /\ PureMove /\ WellFormedGrab
    /\ start > Grab.start /\ end > Grab.end

(* C3: every drag update of a left-edge resize leaves end at its value at  *)
(* pointer-down and sets start to the grabbed start plus the delta,        *)
(* clamped into [0, end]. Stated for segments grabbed with                 *)
(* 0 <= start <= end <= Duration.                                          *)
C3_LeftResizeKeepsEnd ==
    [][\A x \in DragPixels :
         (handleDrag(x) /\ updateable /\ LeftResize /\ WellFormedGrab) =>
             /\ end' = Grab.end
             /\ start' = clamp(Grab.start + Delta(x), 0, Grab.end)]_vars

(* C4: every drag update of a right-edge resize leaves start at its value  *)
(* at pointer-down and sets end to the grabbed end plus the delta, clamped *)
(* into [start, Duration]. Stated for segments grabbed with                *)
(* 0 <= start <= end <= Duration.                                          *)
C4_RightResizeKeepsStart ==
    [][\A x \in DragPixels :
         (handleDrag(x) /\ updateable /\ RightResize /\ WellFormedGrab) =>
             /\ start' = Grab.start
             /\ end' = clamp(Grab.end + Delta(x), Grab.start, Duration)]_vars

(* C5: after every pointer-up of a gesture the segment is Idle: not        *)
(* dragging, no grab position, no edge grabbed, no document listener left. *)
C5_IdleAfterMouseUp == lastOp = "handleMouseUp" => Idle

(* C6: update(options) on a segment that is not updateable changes no      *)
(* field unless options.updateable is true.                                *)
C6_UpdateRefusedUnlessEnabling ==
    [][\A options \in UpdateOptions :
         (update(options) /\ ~updateable
            /\ ~(Has(options, "updateable") /\ options.updateable)) =>
             UNCHANGED segVars]_vars

PostDestroyOps ==
    {"update", "updatePosition", "updateColor", "setVisibility", "handleSelected",
     "handleHighlighted", "handleDrag", "handleMouseUp"}

(* C7: once the segment is destroyed, update, updatePosition, updateColor, *)
(* setVisibility, handleSelected, handleHighlighted, pointer-move and      *)
(* pointer-up leave start, end, visible, selected and highlighted          *)
(* unchanged and emit no global notification. Stated for the calls made   *)
(* while updateable is true, which pass each operation's own guard.        *)
C7_DestroyedRejectsMutation ==
    [][(isDestroyed /\ updateable /\ lastOp' \in PostDestroyOps) =>
           /\ UNCHANGED <<start, end, visible, selected, highlighted>>
           /\ ~EmitsGlobal(emitted')]_vars

(* C8: after every handleSelected call on an updateable segment, made      *)
(* directly or by the release of a click, the colour is darkened exactly   *)
(* when the resulting selected flag is true.                               *)
C8_DarkenedIffSelected ==
    (updateable /\ (lastOp = "handleSelected"
                    \/ (lastOp = "handleMouseUp" /\ emitted # << >>
                        /\ emitted[Len(emitted)] = "regionSelected")))
        => (color.dark <=> selected)

GuardedOps ==
    {"updatePosition", "updateColor", "handleSelected", "handleHighlighted",
     "mouseDown", "handleDrag", "mouseOver"}

(* C9: while updateable is false, updatePosition, updateColor,             *)
(* handleSelected, handleHighlighted, pointer-down, drag update and hover  *)
(* change no segment field, no transient gesture state and no cursor, and  *)
(* emit no notification.                                                   *)
C9_NotUpdateableFrame ==
    [][(~updateable /\ lastOp' \in GuardedOps) =>
           /\ UNCHANGED <<segVars, gestureVars, isDestroyed, subscribed, cursor>>
           /\ emitted' = << >>]_vars

(* C9 witness: a pointer-move reached a segment that was armed and then    *)
(* made non-updateable.                                                    *)
C9_Witness == ~updateable /\ lastOp = "handleDrag" /\ Armed

(* C10: remove() on a segment asked to be non-deleteable, by its           *)
(* construction options or by a later update, emits nothing.               *)
C10_RemoveRefused == (lastOp = "remove" /\ ~requestedDeleteable) => emitted = << >>

(* C11: a destroy call on a segment that is not deleteable or is already   *)
(* destroyed changes nothing and emits nothing, so it leaves a refused     *)
(* segment not destroyed with its local listeners attached; any other      *)
(* destroy call marks the segment destroyed and emits regionRemoved once   *)
(* exactly when notify is true; nothing un-destroys a segment, so destroy  *)
(* emits regionRemoved at most once over any sequence of calls.            *)
C11_DestroyOnce ==
    [][/\ isDestroyed => isDestroyed'
       /\ \A notify \in Optional(BOOLEAN) :
            destroy(notify) =>
                IF ~deleteable \/ isDestroyed
                THEN /\ UNCHANGED <<segVars, gestureVars, isDestroyed, subscribed>>
                     /\ emitted' = << >>
                ELSE /\ isDestroyed'
                     /\ emitted' = IF notify = <<FALSE>> THEN << >>
                                   ELSE <<"regionRemoved">>]_vars

(* C11 witness: a destroy call was refused on a segment that is not        *)
(* deleteable, which stays alive with its listeners.                       *)
C11_Witness ==
    lastOp = "destroy" /\ ~deleteable /\ ~isDestroyed /\ subscribed /\ emitted = << >>

(* C12: a pointer-up on an updateable segment ends the gesture in one of   *)
(* two ways: when a drag update ran since the pointer went down it emits   *)
(* updateEnd then regionUpdatedEnd and leaves selected alone; when none    *)
(* ran it toggles selected and emits regionSelected, and neither updateEnd *)
(* nor regionUpdatedEnd.                                                   *)
C12_DragOrClick ==
    [][(handleMouseUp /\ updateable) =>
          /\ gesture = "dragged" =>
                /\ emitted' = <<"updateEnd", "regionUpdatedEnd">>
                /\ selected' = selected
          /\ gesture = "armed" =>
                /\ selected' = ~selected
                /\ \E i \in 1..Len(emitted') : emitted'[i] = "regionSelected"
                /\ \A i \in 1..Len(emitted') :
                      emitted'[i] \notin {"updateEnd", "regionUpdatedEnd"}]_vars

(* C13: setVisibility(v) with v equal to the current visible changes       *)
(* nothing and emits nothing; with another v it sets visible to v and      *)
(* emits one local update followed by one global regionUpdated, and        *)
(* changes no other field.                                                 *)
C13_SetVisibility ==
    [][\A v \in BOOLEAN :
          setVisibility(v) =>
              /\ visible' = v
              /\ emitted' = IF v = visible THEN << >> ELSE <<"update", "regionUpdated">>
              /\ UNCHANGED <<start, end, color, handleColor, selected, highlighted,
                             updateable, deleteable, gestureVars, isDestroyed,
                             subscribed>>]_vars

(* C13 witness: setVisibility(false) was called on a hidden segment and   *)
(* emitted nothing.                                                        *)
C13_Witness == lastOp = "setVisibility" /\ ~visible /\ emitted = << >>

(* C14: on an updateable segment handleSelected(true) darkens the colour   *)
(* and keeps its base value, render() keeps the base value however often   *)
(* it runs, and handleSelected(false) sets the colour back to the base     *)
(* value: selecting then deselecting, with any frames in between, returns  *)
(* the colour to what it was.                                              *)
C14_SelectRoundTrip ==
    [][/\ (handleSelected(<<TRUE>>) /\ updateable /\ ~color.dark) =>
              color' = [base |-> color.base, dark |-> TRUE]
       /\ render => color'.base = color.base
       /\ (handleSelected(<<FALSE>>) /\ updateable) =>
              color' = [base |-> color.base, dark |-> FALSE]]_vars

(* C14 witness: handleSelected deselected a segment and its colour is the  *)
(* base colour.                                                            *)
C14_Witness ==
    /\ lastOp = "handleSelected" /\ updateable /\ ~selected /\ ~highlighted
    /\ emitted = <<"update", "regionUpdated">> /\ color = rgba("#ccc")

(* C15: while selected is true, handleHighlighted with any argument or     *)
(* none changes neither highlighted nor the colour and emits nothing;      *)
(* while selected is false on an updateable segment it sets highlighted to *)
(* the argument, or toggles it when there is none, and the colour is the   *)
(* base colour darkened when highlighted became true and the base colour   *)
(* when it became false.                                                   *)
C15_HighlightUnderSelection ==
    [][\A hl \in Optional(BOOLEAN) :
          handleHighlighted(hl) =>
              /\ selected => UNCHANGED <<highlighted, color>> /\ emitted' = << >>
              /\ (~selected /\ updateable) =>
                    /\ highlighted' = IF hl = << >> THEN ~highlighted ELSE hl[1]
                    /\ color' = [base |-> color.base, dark |-> highlighted']]_vars

(* C15 witness: handleHighlighted was called on a selected, updateable     *)
(* segment and emitted nothing.                                            *)
C15_Witness ==
    lastOp = "handleHighlighted" /\ selected /\ updateable /\ emitted = << >>

(* The segment's own fields as a record *)
SegmentRecord ==
    [start |-> start, end |-> end, selected |-> selected, color |-> color,
     updateable |-> updateable, isDragging |-> isDragging,
     draggingStartPosition |-> draggingStartPosition,
     isGrabbingEdge |-> isGrabbingEdge, docListeners |-> docListeners,
     emitted |-> emitted]

(* The handlers on a record do to it what the handlers on the variables do *)
(* to the segment.                                                         *)
RecordHandlersAgree ==
    [][/\ \A x \in Pixels, c \in Controllers :
            mouseDown(x, c.overrideKey, c.isLocked, c.layerVisible) =>
                SegmentRecord' = mouseDownOn(SegmentRecord, x, c.overrideKey,
                                             c.isLocked, c.layerVisible)
       /\ \A x \in DragPixels : handleDrag(x) => SegmentRecord' = handleDragOn(SegmentRecord, x)
       /\ handleMouseUp => SegmentRecord' = handleMouseUpOn(SegmentRecord)]_vars

PeerArmed == peer.draggingStartPosition # << >>

(* C16: a pointer-down that the controller lets through arms its segment   *)
(* and installs its two document listeners whether or not the other        *)
(* segment is armed, and leaves the other segment's gesture state alone;   *)
(* a pointer-move that finds both segments armed and updateable commits a  *)
(* bounds update with update then regionUpdated on each of them.           *)
C16_BothArmed ==
    [][/\ lastOp' = "mouseDown" =>
            \A x \in GuardPixels, c \in Controllers :
                (/\ ~mouseDownIgnored(c.overrideKey, c.isLocked, c.layerVisible)
                 /\ mouseDown(x, c.overrideKey, c.isLocked, c.layerVisible)) =>
                    Armed' /\ {"mousemove", "mouseup"} \subseteq docListeners'
       /\ (~Armed /\ Armed') => peer' = peer
       /\ (~PeerArmed /\ PeerArmed') =>
                /\ {"mousemove", "mouseup"} \subseteq peer'.docListeners
                /\ UNCHANGED <<gestureVars, start, end>>
       /\ (Armed /\ updateable /\ PeerArmed /\ peer.updateable /\ DocumentMouseMove) =>
                /\ lastOp' = "handleDrag"
                /\ isDragging' /\ peer'.isDragging
                /\ emitted' = <<"update", "regionUpdated">>
                /\ peer'.emitted = <<"update", "regionUpdated">>]_vars

(* C16 witness: both segments are armed and a pointer-move has moved both. *)
C16_Witness ==
    /\ Armed /\ PeerArmed
    /\ lastOp = "handleDrag" /\ emitted = <<"update", "regionUpdated">>
    /\ peer.emitted = <<"update", "regionUpdated">>
    /\ start # Grab.start /\ peer.start # peer.draggingStartPosition[1].start

(* What an observer of the segment can see of it *)
Observable == <<start, end, color, visible, selected, highlighted>>

(* C17: every call that changes start, end, color, visible, selected or    *)
(* highlighted, update(partial) included, emits both the local update and  *)
(* the global regionUpdated.                                               *)
C17_EveryMutationNotifies ==
    [][Observable' # Observable =>
          /\ \E i \in 1..Len(emitted') : emitted'[i] = "update"
          /\ \E i \in 1..Len(emitted') : emitted'[i] = "regionUpdated"]_vars

(* C18: a pointer-move delivered to an armed, updateable segment writes    *)
(* the bounds the drag computes and emits exactly one local update then    *)
(* exactly one global regionUpdated, the notifications of one              *)
(* updatePosition call, and leaves isDragging true.                        *)
C18_DragNotifiesLikeUpdatePosition ==
    [][\A x \in DragPixels :
          (Armed /\ updateable /\ handleDrag(x)) =>
              LET t == dragTarget(x) IN
              /\ start' = Min(t.start, t.end)
              /\ end' = Max(t.start, t.end)
              /\ emitted' = <<"update", "regionUpdated">>
              /\ isDragging']_vars

(* C18 witness: the first pointer-move of a gesture has moved the segment. *)
C18_Witness ==
    /\ lastOp = "handleDrag" /\ gesture = "dragged" /\ isDragging /\ updateable
    /\ emitted = <<"update", "regionUpdated">>
    /\ Armed /\ start # Grab.start /\ end # Grab.end

(* C19: a pointer-down on a segment that is not updateable, or while the   *)
(* collection is locked, the override key is held or the layer group is    *)
(* hidden, changes none of draggingStartPosition, isGrabbingEdge,          *)
(* isDragging and the document listeners, changes no field and emits       *)
(* nothing; and a segment with no document listener gets no pointer-move   *)
(* or pointer-up call, so its bounds and selection stay until a            *)
(* pointer-down is accepted.                                               *)
C19_RefusedPointerDown ==
    [][/\ lastOp' = "mouseDown" =>
            \A x \in Pixels, c \in Controllers :
                (/\ ~updateable \/ c.isLocked \/ c.overrideKey \/ ~c.layerVisible
                 /\ mouseDown(x, c.overrideKey, c.isLocked, c.layerVisible)) =>
                    /\ UNCHANGED <<gestureVars, segVars, cursor>>
                    /\ emitted' = << >>
       /\ docListeners = {} => lastOp' \notin {"handleDrag", "handleMouseUp"}]_vars

(* C19 witness: a pointer-down on an updateable segment was refused by the *)
(* controller and left it idle.                                            *)
C19_Witness ==
    lastOp = "mouseDown" /\ updateable /\ Idle /\ docListeners = {} /\ gesture = "none"

BothEdges == Armed /\ isGrabbingEdge.isLeftEdge /\ isGrabbingEdge.isRightEdge

(* C20: when the pointer went down in both edge zones, every drag update  *)
(* leaves start and end at their values at pointer-down and still emits    *)
(* update then regionUpdated, and the pointer-up after a drag update emits *)
(* updateEnd then regionUpdatedEnd and leaves selected alone.              *)
C20_BothEdgesFreeze ==
    [][/\ \A x \in DragPixels :
            (BothEdges /\ updateable /\ handleDrag(x)) =>
                /\ start' = Grab.start /\ end' = Grab.end
                /\ emitted' = <<"update", "regionUpdated">>
       /\ (BothEdges /\ updateable /\ gesture = "dragged" /\ handleMouseUp) =>
                /\ emitted' = <<"updateEnd", "regionUpdatedEnd">>
                /\ selected' = selected
                /\ UNCHANGED <<start, end>>]_vars

====
